---- MODULE Spec2Model ----
(***************************************************************************)
(* A model of the PR filtering / collection / scoring core of dw_eval:     *)
(*   - filter_pr and scrape_repository of scrape_prs.py,                   *)
(*   - evaluate_with_claude of evaluate_generic.py.                        *)
(*                                                                         *)
(* Encodings.  A Python dict is a TLA+ function whose DOMAIN is the set of *)
(* keys present.  A value that may be None is a sequence of length 0       *)
(* (None, and also the empty string, both falsy in Python) or 1.  A string *)
(* that the code inspects (file names, glob patterns, rejection reasons)   *)
(* is a sequence of tokens.  Timestamps are whole days.                    *)
(***************************************************************************)
EXTENDS Integers, Sequences, FiniteSets, TLC

VARIABLES
    now,            \* datetime.now(), in days
    \* ---- one call of filter_pr (specification SpecFilter)
    f_pc,           \* "call" | "done"
    f_pr,           \* argument pr
    f_files,        \* argument files
    f_config,       \* argument config
    f_out,          \* the returned tuple (should_include, reason)
    f_at,           \* the clock value the call read (datetime.now())
    f_calls,        \* how many times filter_pr was called on these inputs
    \* ---- one call of evaluate_with_claude (specification SpecEval)
    e_pc,           \* "call" | "done"
    e_response,     \* what the evaluator collaborator answers
    e_facts,        \* len(facts)
    e_result,       \* the returned dict
    \* ---- main / generate_report (specification SpecReport)
    r_pc,           \* position in main / generate_report
    test_cases_raw, \* the list loaded from the test-case file
    test_cases,     \* the prepared test cases
    valid_cases,    \* the test cases validate_test_case lets through
    evaluations,    \* generate_report: evaluations
    summary,        \* None, or Some(the statistics written to the report)
    \* ---- GitHubAPI and the requests it issues (specification SpecApi)
    a_method,       \* the method that is running
    a_env,          \* what the API holds: pages of the listing and file list
    a_pc,           \* position in the method
    a_page,         \* page of the listing loop
    a_fpage,        \* page of get_pull_request_files
    a_log,          \* every request issued, in order
    a_requested,    \* responses to the listing pages requested so far
    a_frequested,   \* responses to the file-list pages of the current call
    clock,          \* time.time(), in seconds
    \* ---- scrape_repository (specification Spec): the environment
    listing,        \* the upstream PR listing, in the order the API returns it
    s_config,       \* config
    fail_at,        \* None, or <<page, call>>: the request that raises in run 1
    checkpoint,     \* checkpoint.json: None (no file) or Some(contents)
    \* ---- scrape_repository: the locals
    s_pc,           \* position in scrape_repository
    run,            \* how many times scrape_repository has been started
    processed_prs, filtered_data,
    included_count, skipped_count, page, total_fetched, total_checked,
    prs,            \* response.json() of the current page
    has_next,       \* "next" in response.links
    pr_index,       \* position of the for loop in prs (i of enumerate)
    reason,         \* reason returned by the last filter_pr call
    \* ---- scrape_repository: history
    at_start,       \* the checkpoint the current run loaded
    prev_end,       \* how the previous run ended: "none" | "done" | "raised"
    stop,           \* the stop condition that ended the current run
    fetch_failed    \* ids whose file-list fetch failed, in this run or an earlier one

fvars == <<f_pc, f_pr, f_files, f_config, f_out, f_at, f_calls>>
evars == <<e_pc, e_response, e_facts, e_result>>
rvars == <<r_pc, test_cases_raw, test_cases, valid_cases, evaluations, summary>>
avars == <<a_method, a_env, a_pc, a_page, a_fpage, a_log, a_requested,
           a_frequested, clock>>
envvars == <<listing, s_config, fail_at>>
locals == <<processed_prs, filtered_data, included_count, skipped_count, page,
            total_fetched, total_checked, prs, has_next, pr_index, reason>>
histvars == <<at_start, prev_end, stop, fetch_failed>>
svars == <<envvars, checkpoint, s_pc, run, locals, histvars>>

None == <<>>
Some(x) == <<x>>

(***************************************************************************)
(* Bounds of the model.                                                    *)
(***************************************************************************)
MaxFiles == 2        \* longest file list drawn for filter_pr
MaxBody == 2         \* longest PR body drawn
MaxTicks == 1        \* how far the clock may advance
MaxCalls == 2        \* filter_pr is called at most this often on one input
MaxSub == 11         \* largest sub-score the evaluator may answer
MaxFacts == 2        \* largest number of ground-truth facts / facts found

NowDay == 60         \* the clock at the start

(***************************************************************************)
(* matches_exclude_pattern / fnmatch: "*" matches any run of characters,   *)
(* "?" one character, every other pattern character itself.                *)
(***************************************************************************)
RECURSIVE fnmatch(_, _)
fnmatch(filename, pattern) ==
    IF pattern = <<>> THEN filename = <<>>
    ELSE IF Head(pattern) = "*"
         THEN \E k \in 0..Len(filename) :
                 fnmatch(SubSeq(filename, k + 1, Len(filename)), Tail(pattern))
    ELSE IF filename = <<>> THEN FALSE
    ELSE /\ (Head(pattern) = "?" \/ Head(pattern) = Head(filename))
         /\ fnmatch(Tail(filename), Tail(pattern))

matches_exclude_pattern(filename, patterns) ==
    \E i \in 1..Len(patterns) : fnmatch(filename, patterns[i])

\* dict.get(key, default)
Get(d, key, default) == IF key \in DOMAIN d THEN d[key] ELSE default

RECURSIVE SumChanges(_)
SumChanges(fs) ==
    IF fs = <<>> THEN 0 ELSE Get(Head(fs), "changes", 0) + SumChanges(Tail(fs))

\* timedelta(days=max_age_months * 30)
AgeDays(max_age_months) == max_age_months * 30

(***************************************************************************)
(* filter_pr(pr, files, config), read at clock value t.                    *)
(* Returns <<should_include, reason>>; reason is None or a token sequence. *)
(***************************************************************************)
filter_pr_files_first(pr, files, config, t) ==
    LET filters == config.pr_filters
        num_files == Len(files)
    IN  IF num_files < filters.min_files_changed
        THEN <<FALSE, <<"too", "few", "files", ToString(num_files)>> >>
        ELSE IF num_files > filters.max_files_changed
        THEN <<FALSE, <<"too", "many", "files", ToString(num_files)>> >>
        ELSE IF filters.merged_only /\ pr.merged_at = None
        THEN <<FALSE, <<"not", "merged">> >>
        ELSE <<TRUE, None>>

\* filter_pr with both file-count bounds exclusive
filter_pr_exclusive_bounds(pr, files, config, t) ==
    LET filters == config.pr_filters
        merged_at == pr.merged_at
        created_at == pr.created_at
        created_before == filters.created_before
        max_age_months == filters.max_age_months
        num_files == Len(files)
        body == pr.body
        exclude_patterns == filters.exclude_patterns
        non_excluded_files ==
            SelectSeq(files, LAMBDA f :
                ~ matches_exclude_pattern(f.filename, exclude_patterns))
    IN  IF filters.merged_only /\ merged_at = None
        THEN <<FALSE, <<"not", "merged">> >>
        ELSE IF /\ created_before # None
                /\ created_at # None
                /\ created_at[1] >= created_before[1]
        THEN <<FALSE, <<"created", "too", "late", ToString(created_at[1])>> >>
        ELSE IF /\ max_age_months # None
                /\ merged_at # None
                /\ merged_at[1] < t - AgeDays(max_age_months[1])
        THEN <<FALSE, <<"too", "old", "merged", ToString(merged_at[1])>> >>
        ELSE IF num_files <= filters.min_files_changed
        THEN <<FALSE, <<"too", "few", "files", ToString(num_files)>> >>
        ELSE IF num_files >= filters.max_files_changed
        THEN <<FALSE, <<"too", "many", "files", ToString(num_files)>> >>
        ELSE IF /\ filters.require_description
                /\ Len(body) < filters.min_description_length
        THEN <<FALSE, <<"insufficient", "description">> >>
        ELSE IF non_excluded_files = <<>>
        THEN <<FALSE, <<"only", "excluded", "file", "types">> >>
        ELSE IF SumChanges(non_excluded_files) < 5 * Len(non_excluded_files)
        THEN <<FALSE, <<"trivial", "changes">> >>
        ELSE <<TRUE, None>>

filter_pr(pr, files, config, t) ==
    LET filters == config.pr_filters
        merged_at == pr.merged_at
        created_at == pr.created_at
        created_before == filters.created_before
        max_age_months == filters.max_age_months
        num_files == Len(files)
        body == pr.body
        exclude_patterns == filters.exclude_patterns
        non_excluded_files ==
            SelectSeq(files, LAMBDA f :
                ~ matches_exclude_pattern(f.filename, exclude_patterns))
    IN  IF filters.merged_only /\ merged_at = None
        THEN <<FALSE, <<"not", "merged">> >>
        ELSE IF /\ created_before # None
                /\ created_at # None
                /\ created_at[1] >= created_before[1]
        THEN <<FALSE, <<"created", "too", "late", ToString(created_at[1])>> >>
        ELSE IF /\ max_age_months # None
                /\ merged_at # None
                /\ merged_at[1] < t - AgeDays(max_age_months[1])
        THEN <<FALSE, <<"too", "old", "merged", ToString(merged_at[1])>> >>
        ELSE IF num_files < filters.min_files_changed
        THEN <<FALSE, <<"too", "few", "files", ToString(num_files)>> >>
        ELSE IF num_files > filters.max_files_changed
        THEN <<FALSE, <<"too", "many", "files", ToString(num_files)>> >>
        ELSE IF /\ filters.require_description
                /\ Len(body) < filters.min_description_length
        THEN <<FALSE, <<"insufficient", "description">> >>
        ELSE IF non_excluded_files = <<>>
        THEN <<FALSE, <<"only", "excluded", "file", "types">> >>
        ELSE IF SumChanges(non_excluded_files) < 5 * Len(non_excluded_files)
        THEN <<FALSE, <<"trivial", "changes">> >>
        ELSE <<TRUE, None>>

(***************************************************************************)
(* Inputs of filter_pr.                                                    *)
(***************************************************************************)
SeqsUpTo(S, n) == UNION {[1..k -> S] : k \in 0..n}

Days == {NowDay - 31, NowDay - 30, NowDay - 1}
MdFile == <<"a", ".", "m", "d">>
PyFile == <<"b", ".", "p", "y">>
FileChanges ==
    {[filename |-> MdFile, changes |-> 9],
     [filename |-> PyFile, changes |-> 4],
     [filename |-> PyFile, changes |-> 6],
     [filename |-> PyFile]}
FileLists == SeqsUpTo(FileChanges, MaxFiles)
Bodies == {[i \in 1..k |-> "x"] : k \in 0..MaxBody}
Candidates ==
    [merged_at : {None} \cup {Some(d) : d \in Days},
     created_at : {None, Some(NowDay - 31), Some(NowDay - 1)},
     body : Bodies]
FilterConfigs ==
    {[pr_filters |-> f] : f \in
        [merged_only : BOOLEAN,
         created_before : {None, Some(NowDay - 30)},
         max_age_months : {None, Some(0), Some(1)},
         min_files_changed : {1, 2},
         max_files_changed : {1, 2},
         require_description : BOOLEAN,
         min_description_length : {2},
         exclude_patterns : {<<>>, << <<"*", ".", "m", "d">> >>}]}

(***************************************************************************)
(* The eight checks of filter_pr, each stated on its own: check k fails.   *)
(***************************************************************************)
NonExcluded(files, config) ==
    {i \in 1..Len(files) :
        \A j \in 1..Len(config.pr_filters.exclude_patterns) :
            ~ fnmatch(files[i].filename, config.pr_filters.exclude_patterns[j])}

RECURSIVE ChangesOver(_, _)
ChangesOver(files, I) ==
    IF I = {} THEN 0
    ELSE LET i == CHOOSE x \in I : TRUE
         IN  (IF "changes" \in DOMAIN files[i] THEN files[i].changes ELSE 0)
             + ChangesOver(files, I \ {i})

CheckFails(k, pr, files, config, t) ==
    LET c == config.pr_filters
        ne == NonExcluded(files, config)
    IN  CASE k = 1 -> c.merged_only /\ pr.merged_at = None
          [] k = 2 -> /\ c.created_before # None /\ pr.created_at # None
                      /\ pr.created_at[1] >= c.created_before[1]
          [] k = 3 -> /\ c.max_age_months # None /\ pr.merged_at # None
                      /\ pr.merged_at[1] + 30 * c.max_age_months[1] < t
          [] k = 4 -> Len(files) < c.min_files_changed
          [] k = 5 -> Len(files) > c.max_files_changed
          [] k = 6 -> c.require_description /\ Len(pr.body) < c.min_description_length
          [] k = 7 -> ne = {}
          [] k = 8 -> /\ ne # {}
                      /\ ChangesOver(files, ne) < 5 * Cardinality(ne)

ReasonHead(k) ==
    CASE k = 1 -> <<"not", "merged">>
      [] k = 2 -> <<"created", "too", "late">>
      [] k = 3 -> <<"too", "old">>
      [] k = 4 -> <<"too", "few", "files">>
      [] k = 5 -> <<"too", "many", "files">>
      [] k = 6 -> <<"insufficient", "description">>
      [] k = 7 -> <<"only", "excluded", "file", "types">>
      [] k = 8 -> <<"trivial", "changes">>

IsPrefix(p, s) == Len(p) <= Len(s) /\ SubSeq(s, 1, Len(p)) = p

FilterInit ==
    /\ f_pc = "call"
    /\ f_pr \in Candidates
    /\ f_files \in FileLists
    /\ f_config \in FilterConfigs
    /\ f_out = <<FALSE, None>>
    /\ f_at = 0
    /\ f_calls = 0

FilterIdle ==
    /\ f_pc = "idle"
    /\ f_pr = None
    /\ f_files = <<>>
    /\ f_config = None
    /\ f_out = <<FALSE, None>>
    /\ f_at = 0
    /\ f_calls = 0

FilterCall ==
    /\ f_pc = "call"
    /\ f_out' = filter_pr(f_pr, f_files, f_config, now)
    /\ f_pc' = "done"
    /\ f_at' = now
    /\ f_calls' = f_calls + 1
    /\ UNCHANGED <<now, f_pr, f_files, f_config, evars, rvars, avars, svars>>

\* filter_pr is called once more with the same pr, files and config.
FilterAgain ==
    /\ f_pc = "done"
    /\ f_calls < MaxCalls
    /\ f_pc' = "call"
    /\ UNCHANGED <<now, f_pr, f_files, f_config, f_out, f_at, f_calls, evars,
                   rvars, avars, svars>>

\* The wall clock advances between two readings of datetime.now().
Tick ==
    /\ now < NowDay + MaxTicks
    /\ now' = now + 1
    /\ UNCHANGED <<fvars, evars, rvars, avars, svars>>

(***************************************************************************)
(* evaluate_with_claude.  JSON values are tagged: Num(n), Str(s), Null;    *)
(* a float quotient a / b is kept as the exact fraction Frac(a, b).        *)
(***************************************************************************)
Num(n) == [t |-> "num", v |-> n]
Str(x) == [t |-> "str", v |-> x]
Null == [t |-> "null"]
Frac(a, b) == [num |-> a, den |-> b]
EmptyDict == [k \in {} |-> Null]

\* The dict returned on json.JSONDecodeError and on any other exception.
ErrorResult(n_facts) ==
    [score |-> Frac(0, 1), raw_score |-> 0,
     factual_correctness |-> Num(0), fact_coverage |-> Num(0),
     specificity |-> 0, specificity_na |-> FALSE,
     facts_covered |-> 0, total_facts |-> n_facts, error |-> TRUE]

\* raw_score = (2 * factual) + coverage + specificity
RawScoreUnweighted(factual, coverage, specificity) ==
    factual + coverage + specificity

RawScore(factual, coverage, specificity) ==
    (2 * factual) + coverage + specificity

\* specificity == "N/A" or specificity is None
IsNASentinelOrMissing(scores) ==
    \/ "specificity" \notin DOMAIN scores
    \/ scores["specificity"].t = "null"
    \/ (scores["specificity"].t = "str" /\ scores["specificity"].v = "N/A")

IsNASentinel(scores) ==
    LET specificity == Get(scores, "specificity", Num(0))
    IN  \/ specificity.t = "null"
        \/ (specificity.t = "str" /\ specificity.v = "N/A")

\* The branch `if 'scores' in result` (current format).
ScoresBranch(result, n_facts) ==
    LET scores == result["scores"]
        factual == Get(scores, "factual_correctness", Num(0))
        coverage == Get(scores, "fact_coverage", Num(0))
        spec0 == Get(scores, "specificity", Num(0))
        specificity_na == IsNASentinel(scores)
        facts_found == Get(Get(result, "reasoning", EmptyDict), "facts_found", <<>>)
    IN  IF ~ specificity_na /\ spec0.t # "num"
        THEN ErrorResult(n_facts)            \* float("...") raises ValueError
        ELSE IF factual.t # "num" \/ coverage.t # "num"
        THEN ErrorResult(n_facts)            \* the sum raises TypeError
        ELSE LET specificity == IF specificity_na THEN 0 ELSE spec0.v
                 raw_score == RawScore(factual.v, coverage.v, specificity)
             IN  [k \in DOMAIN result \cup
                        {"score", "raw_score", "factual_correctness", "fact_coverage",
                         "specificity", "specificity_na", "facts_covered",
                         "total_facts", "analysis"} |->
                    CASE k = "score" -> Frac(raw_score, 40)
                      [] k = "raw_score" -> raw_score
                      [] k = "factual_correctness" -> factual
                      [] k = "fact_coverage" -> coverage
                      [] k = "specificity" -> specificity
                      [] k = "specificity_na" -> specificity_na
                      [] k = "facts_covered" -> Len(facts_found)
                      [] k = "total_facts" -> n_facts
                      [] k = "analysis" -> Get(result, "summary", "")
                      [] OTHER -> result[k]]

\* The branch `elif 'score' in result` (old format).
LegacyBranch(result, n_facts) ==
    IF result["score"].t # "num"
    THEN ErrorResult(n_facts)
    ELSE [k \in DOMAIN result \cup {"total_facts"} |->
            CASE k = "score" -> Frac(result["score"].v, 100)
              [] k = "total_facts" -> n_facts
              [] OTHER -> result[k]]

evaluate_with_claude(response, n_facts) ==
    IF response.kind # "json"
    THEN ErrorResult(n_facts)      \* API error, empty content, JSONDecodeError
    ELSE IF "scores" \in DOMAIN response.result
    THEN ScoresBranch(response.result, n_facts)
    ELSE IF "score" \in DOMAIN response.result
    THEN LegacyBranch(response.result, n_facts)
    ELSE ErrorResult(n_facts)      \* ValueError("Unknown response format")

(***************************************************************************)
(* Inputs of evaluate_with_claude.                                         *)
(***************************************************************************)
Absent == [t |-> "absent"]
Entry(k, v) == IF v.t = "absent" THEN EmptyDict ELSE (k :> v)

SubScores == {Num(n) : n \in 0..MaxSub}
ScoresDicts ==
    {Entry("factual_correctness", f) @@ Entry("fact_coverage", c)
        @@ Entry("specificity", sp) :
        f \in SubScores \cup {Absent, Null},
        c \in SubScores \cup {Absent},
        sp \in SubScores \cup {Absent, Null, Str("N/A"), Str("high")}}
FactsFound == {[i \in 1..k |-> "fact"] : k \in 0..(MaxFacts + 1)}
Reasonings ==
    {EmptyDict} \cup {("facts_found" :> ff) : ff \in FactsFound}
CurrentResponses ==
    {[kind |-> "json", result |-> ("scores" :> sc) @@ ("reasoning" :> r)] :
        sc \in ScoresDicts, r \in Reasonings}
    \cup {[kind |-> "json", result |-> ("scores" :> sc)] : sc \in ScoresDicts}
LegacyResponses ==
    {[kind |-> "json", result |-> ("score" :> Num(n))] : n \in {0, 50, 100}}
MalformedResponses ==
    {[kind |-> "api_error"], [kind |-> "empty"], [kind |-> "not_json"],
     [kind |-> "json", result |-> ("summary" :> "text")],
     [kind |-> "json", result |-> ("score" :> Null)]}
Responses == CurrentResponses \cup LegacyResponses \cup MalformedResponses

EvalInit ==
    /\ e_pc = "call"
    /\ e_response \in Responses
    /\ e_facts \in 0..MaxFacts
    /\ e_result = None

EvalCall ==
    /\ e_pc = "call"
    /\ e_result' = evaluate_with_claude(e_response, e_facts)
    /\ e_pc' = "done"
    /\ UNCHANGED <<now, fvars, e_response, e_facts, rvars, avars, svars>>

EvalIdle ==
    /\ e_pc = "idle"
    /\ e_response = None
    /\ e_facts = 0
    /\ e_result = None

ScrapeIdle ==
    /\ listing = <<>>
    /\ s_config = None
    /\ fail_at = None
    /\ checkpoint = None
    /\ s_pc = "idle"
    /\ run = 0
    /\ processed_prs = {}
    /\ filtered_data = <<>>
    /\ included_count = 0
    /\ skipped_count = 0
    /\ page = 0
    /\ total_fetched = 0
    /\ total_checked = 0
    /\ prs = <<>>
    /\ has_next = FALSE
    /\ pr_index = 0
    /\ reason = None
    /\ at_start = None
    /\ prev_end = "none"
    /\ stop = "none"
    /\ fetch_failed = {}

(***************************************************************************)
(* main / validate_and_prepare_test_cases / generate_report of             *)
(* evaluate_generic.py (specification SpecReport).                         *)
(*                                                                         *)
(* A test case is a dict; next to the keys the program reads it carries    *)
(* the key "response": what the evaluator collaborator answers when it is  *)
(* asked about this case.  A call that raises returns [exc |-> name].      *)
(***************************************************************************)
MaxCases == 3        \* longest list of test cases drawn

system_answer_field == "deepwiki_answer"

Raised(name) == [exc |-> name]
Returned(value) == [exc |-> "none", value |-> value]

prepared_case(tc) ==
    [id |-> Get(tc, "id", "N/A"),
     question |-> tc["question"],
     ground_truth |-> Get(tc, "ground_truth_answer", Get(tc, "answer", "")),
     facts |-> tc["facts"],
     metadata |-> Get(tc, "metadata", EmptyDict),
     system_answer |-> Get(tc, system_answer_field, ""),
     response |-> tc["response"]]

validate_and_prepare_test_cases(cases) ==
    LET required_fields == {"question", "facts", system_answer_field}
    IN  IF cases = <<>>
        THEN Raised("ValueError")
        ELSE IF required_fields \ DOMAIN cases[1] # {}
        THEN Raised("ValueError")
        ELSE IF \E i \in 1..Len(cases) :
                   {"question", "facts"} \ DOMAIN cases[i] # {}
        THEN Raised("KeyError")     \* tc['question'] / tc['facts']
        ELSE Returned([i \in 1..Len(cases) |->
                          prepared_case(cases[i])])

\* validate_test_case(tc)[0]
validate_test_case(tc) ==
    /\ {"question", "ground_truth", "facts", "system_answer", "id"}
           \subseteq DOMAIN tc
    /\ tc["facts"] # <<>>

\* The result generate_report builds for a case without a system answer.
NoAnswerResult(n_facts) ==
    [score |-> Frac(0, 1), raw_score |-> 0,
     factual_correctness |-> Num(0), fact_coverage |-> Num(0),
     specificity |-> 0, specificity_na |-> FALSE,
     analysis |-> "No system answer provided",
     facts_covered |-> 0, total_facts |-> n_facts, error |-> TRUE]

\* Exact rational arithmetic, kept in lowest terms.
RECURSIVE GCD(_, _)
GCD(a, b) == IF b = 0 THEN a ELSE GCD(b, a % b)
AddFrac(a, b) ==
    LET n == a.num * b.den + b.num * a.den
        d == a.den * b.den
        g == GCD(n, d)
    IN  Frac(n \div g, d \div g)
FracEq(a, b) == a.num * b.den = b.num * a.den

RECURSIVE SumNums(_)
SumNums(s) == IF s = <<>> THEN 0 ELSE Head(s) + SumNums(Tail(s))

RECURSIVE SumFracs(_)
SumFracs(s) == IF s = <<>> THEN Frac(0, 1) ELSE AddFrac(Head(s), SumFracs(Tail(s)))

\* sum(...) / n
Average(nums, n) == Frac(SumNums(nums), n)
AverageFrac(fracs, n) ==
    LET total == SumFracs(fracs) IN Frac(total.num, total.den * n)

\* completed = [e for e in evaluations if not e['evaluation'].get('error', False)]
Completed_all(evals) == evals

Completed(evals) ==
    SelectSeq(evals, LAMBDA e : ~ Get(e.evaluation, "error", FALSE))

\* by_difficulty / by_type / by_scope: metadata value -> list of scores
Breakdown(completed, key) ==
    LET Map(s, F(_)) == [i \in 1..Len(s) |-> F(s[i])]
        with == SelectSeq(completed,
                          LAMBDA e : key \in DOMAIN e.test_case["metadata"])
    IN  [v \in {with[i].test_case["metadata"][key] : i \in 1..Len(with)} |->
            Map(SelectSeq(with, LAMBDA e : e.test_case["metadata"][key] = v),
                LAMBDA e : e.evaluation["score"])]

\* Lines 308-346: the statistics, as json_results["summary"] and the three
\* breakdown lists.  Raised("KeyError") when a completed evaluation has no
\* facts_covered (line 329).
Statistics(n_test_cases, evals) ==
    LET Map(s, F(_)) == [i \in 1..Len(s) |-> F(s[i])]
        completed == Completed(evals)
        total_completed == Len(completed)
        total_errors == Len(evals) - total_completed
        specificity_scores ==
            Map(SelectSeq(completed,
                    LAMBDA e : ~ Get(e.evaluation, "specificity_na", FALSE)),
                LAMBDA e : Get(e.evaluation, "specificity", 0))
    IN  IF \E i \in 1..Len(completed) :
              "facts_covered" \notin DOMAIN completed[i].evaluation
        THEN Raised("KeyError")
        ELSE Returned(
          [total_test_cases |-> n_test_cases,
           completed |-> total_completed,
           errors |-> total_errors,
           average_score |->
              AverageFrac(Map(completed, LAMBDA e : e.evaluation["score"]),
                          total_completed),
           average_raw_score |->
              Average(Map(completed, LAMBDA e : Get(e.evaluation, "raw_score", 0)),
                      total_completed),
           average_factual_correctness |->
              Average(Map(completed, LAMBDA e :
                         Get(e.evaluation, "factual_correctness", Num(0)).v),
                      total_completed),
           average_fact_coverage |->
              Average(Map(completed, LAMBDA e :
                         Get(e.evaluation, "fact_coverage", Num(0)).v),
                      total_completed),
           average_specificity |->
              IF specificity_scores # <<>>
              THEN Average(specificity_scores, Len(specificity_scores))
              ELSE Frac(0, 1),
           specificity_na_count |->
              Len(SelectSeq(completed,
                     LAMBDA e : Get(e.evaluation, "specificity_na", FALSE))),
           average_facts_covered |->
              Average(Map(completed, LAMBDA e : e.evaluation["facts_covered"]),
                      total_completed),
           by_difficulty |-> Breakdown(completed, "difficulty"),
           by_type |-> Breakdown(completed, "type"),
           by_scope |-> Breakdown(completed, "scope")])

(***************************************************************************)
(* Inputs of main: the list loaded from the test-case file.                *)
(***************************************************************************)
Facts(n) == [i \in 1..n |-> "fact"]
Metadatas ==
    {EmptyDict,
     [difficulty |-> "easy"],
     [difficulty |-> "hard", type |-> "howto", scope |-> "deep"]}
ScoredResponse(f, c, sp, n_found) ==
    [kind |-> "json",
     result |-> ("scores" :> (("factual_correctness" :> Num(f))
                              @@ ("fact_coverage" :> Num(c))
                              @@ ("specificity" :> sp)))
                @@ ("reasoning" :> ("facts_found" :> Facts(n_found)))]
ReportResponses ==
    {ScoredResponse(8, 6, Num(4), 1),
     ScoredResponse(10, 10, Str("N/A"), 2),
     [kind |-> "json", result |-> ("score" :> Num(50))],
     [kind |-> "not_json"],
     [kind |-> "api_error"]}
TestCase(answer, metadata, response) ==
    [id |-> "q", question |-> "text", facts |-> Facts(1),
     deepwiki_answer |-> answer, metadata |-> metadata, response |-> response]
Without(tc, key) == [k \in DOMAIN tc \ {key} |-> tc[k]]
\* Cases with a system answer under every metadata and evaluator response;
\* cases whose system answer is empty or absent; cases lacking the question
\* or the facts, or with an empty facts list.
RawCases ==
    LET plain == TestCase("text", EmptyDict, ScoredResponse(8, 6, Num(4), 1))
        answered ==
            {TestCase("text", m, r) : m \in Metadatas, r \in ReportResponses}
        unanswered ==
            {TestCase("", [difficulty |-> "easy"], [kind |-> "api_error"]),
             Without(plain, system_answer_field)}
        incomplete ==
            {Without(plain, "question"),
             Without(plain, "facts"),
             [plain EXCEPT !["facts"] = <<>>]}
    IN  answered \cup unanswered \cup incomplete

ReportInit ==
    /\ r_pc = "main"
    /\ test_cases_raw \in SeqsUpTo(RawCases, MaxCases)
    /\ test_cases = <<>>
    /\ valid_cases = <<>>
    /\ evaluations = <<>>
    /\ summary = None

ReportIdle ==
    /\ r_pc = "idle"
    /\ test_cases_raw = <<>>
    /\ test_cases = <<>>
    /\ valid_cases = <<>>
    /\ evaluations = <<>>
    /\ summary = None

Prepared == validate_and_prepare_test_cases(test_cases_raw)

\* main, lines 633-637: ValueError is caught, the program exits with 1
PrepareRejects ==
    /\ r_pc = "main"
    /\ Prepared.exc = "ValueError"
    /\ r_pc' = "exit"
    /\ UNCHANGED <<now, fvars, evars, avars, svars, test_cases_raw, test_cases,
                   valid_cases, evaluations, summary>>

\* main, lines 633-637: any other exception leaves main
PrepareRaises ==
    /\ r_pc = "main"
    /\ Prepared.exc \notin {"none", "ValueError"}
    /\ r_pc' = "raised"
    /\ UNCHANGED <<now, fvars, evars, avars, svars, test_cases_raw, test_cases,
                   valid_cases, evaluations, summary>>

\* main, lines 633-640, and generate_report, lines 236-246
Prepare ==
    /\ r_pc = "main"
    /\ Prepared.exc = "none"
    /\ test_cases' = Prepared.value
    /\ valid_cases' = SelectSeq(Prepared.value, validate_test_case)
    /\ r_pc' = "evaluate"
    /\ UNCHANGED <<now, fvars, evars, avars, svars, test_cases_raw, evaluations,
                   summary>>

InEvaluate == r_pc = "evaluate" /\ Len(evaluations) < Len(valid_cases)
tc == valid_cases[Len(evaluations) + 1]

\* Lines 256-275, 303-306: no system answer
EvaluateNoAnswer ==
    /\ InEvaluate
    /\ tc["system_answer"] = ""
    /\ evaluations' = Append(evaluations,
          [test_case |-> tc, evaluation |-> NoAnswerResult(Len(tc["facts"]))])
    /\ UNCHANGED <<now, fvars, evars, avars, svars, r_pc, test_cases_raw, test_cases,
                   valid_cases, summary>>

\* Lines 256-261, 276-306: the evaluator is asked
EvaluateCase ==
    /\ InEvaluate
    /\ tc["system_answer"] # ""
    /\ evaluations' = Append(evaluations,
          [test_case |-> tc,
           evaluation |-> evaluate_with_claude(tc["response"], Len(tc["facts"]))])
    /\ UNCHANGED <<now, fvars, evars, avars, svars, r_pc, test_cases_raw, test_cases,
                   valid_cases, summary>>

AllEvaluated == r_pc = "evaluate" /\ Len(evaluations) = Len(valid_cases)

\* Lines 308-312: nothing completed, generate_report returns
ReportNothing ==
    /\ AllEvaluated
    /\ Completed(evaluations) = <<>>
    /\ r_pc' = "no_completed"
    /\ UNCHANGED <<now, fvars, evars, avars, svars, test_cases_raw, test_cases,
                   valid_cases, evaluations, summary>>

\* Line 329: e['evaluation']['facts_covered'] raises KeyError
ReportRaises ==
    /\ AllEvaluated
    /\ Completed(evaluations) # <<>>
    /\ Statistics(Len(test_cases), evaluations).exc # "none"
    /\ r_pc' = "raised"
    /\ UNCHANGED <<now, fvars, evars, avars, svars, test_cases_raw, test_cases,
                   valid_cases, evaluations, summary>>

\* Lines 308-346 and 517-565: the statistics are computed and written
Report ==
    /\ AllEvaluated
    /\ Completed(evaluations) # <<>>
    /\ Statistics(Len(test_cases), evaluations).exc = "none"
    /\ summary' = Some(Statistics(Len(test_cases), evaluations).value)
    /\ r_pc' = "reported"
    /\ UNCHANGED <<now, fvars, evars, avars, svars, test_cases_raw, test_cases,
                   valid_cases, evaluations>>

(***************************************************************************)
(* GitHubAPI of src/github_api.py and the listing loop of                  *)
(* scrape_repository, at the level of the requests they issue              *)
(* (specification SpecApi).                                                *)
(*                                                                         *)
(* One method call runs at a time.  a_log records every request in the     *)
(* order it is issued: a quota query (GET /rate_limit) with the answer     *)
(* read from it, or a data request.  The clock is in seconds.  A listing   *)
(* has n pages of one item; its last page may carry a next link to an      *)
(* empty page.  Every response has a success status.                       *)
(***************************************************************************)
MaxApiPages == 2     \* most pages a listing or a file list has
MaxLow == 1          \* quota answers below the buffer in one call

rate_limit_buffer == 100

Methods ==
    {"get_pull_requests", "get_pull_request", "get_pull_request_files",
     "get_file_content", "scrape_repository"}

\* _check_rate_limit: the time it sleeps, given the quota answer and
\* time.time() = t
check_rate_limit_nobuffer(core_remaining, core_reset, t) ==
    IF core_remaining < rate_limit_buffer
    THEN LET wait_time == core_reset - t
         IN  IF wait_time > 0 THEN wait_time ELSE 0
    ELSE 0

check_rate_limit(core_remaining, core_reset, t) ==
    IF core_remaining < rate_limit_buffer
    THEN LET wait_time == core_reset - t + 10
         IN  IF wait_time > 0 THEN wait_time ELSE 0
    ELSE 0

\* response.json() (number of items) and "next" in response.links of page p
ApiPage(n, trailing, p) ==
    [page |-> p,
     items |-> IF p <= n THEN 1 ELSE 0,
     has_next |-> p < n \/ (p = n /\ trailing)]

\* What GET /rate_limit may answer at time t: enough quota; too little,
\* reset ahead; too little, reset + 10 already past; too little, reset past
\* by less than 10 seconds.
QuotaAnswers(t) ==
    {[remaining |-> rate_limit_buffer, reset |-> t + 1],
     [remaining |-> rate_limit_buffer - 1, reset |-> t + 1],
     [remaining |-> rate_limit_buffer - 1, reset |-> t - 10],
     [remaining |-> rate_limit_buffer - 1, reset |-> t - 3]}

ApiEnvs(method) ==
    {[n_pages |-> l[1], trailing |-> l[2] /\ l[1] > 0,
      max_pages |-> mp,
      n_fpages |-> fl[1], ftrailing |-> fl[2] /\ fl[1] > 0] :
        l \in IF method \in {"get_pull_requests", "scrape_repository"}
              THEN (0..MaxApiPages) \X BOOLEAN ELSE {<<0, FALSE>>},
        mp \in IF method = "get_pull_requests"
               THEN {None, Some(1)} ELSE {None},
        fl \in IF method \in {"get_pull_request_files", "scrape_repository"}
               THEN (0..MaxApiPages) \X BOOLEAN ELSE {<<0, FALSE>>}}

ApiInit ==
    /\ a_method \in Methods
    /\ a_env \in ApiEnvs(a_method)
    /\ a_pc = CASE a_method = "get_pull_requests" -> "loop"
                [] a_method = "get_pull_request_files" -> "files_check"
                [] OTHER -> "check"
    /\ a_page = 1
    /\ a_fpage = 1
    /\ a_log = <<>>
    /\ a_requested = <<>>
    /\ a_frequested = <<>>
    /\ clock = 0

ApiIdle ==
    /\ a_method = "none"
    /\ a_env = None
    /\ a_pc = "idle"
    /\ a_page = 0
    /\ a_fpage = 0
    /\ a_log = <<>>
    /\ a_requested = <<>>
    /\ a_frequested = <<>>
    /\ clock = 0

nonapi == <<now, fvars, evars, rvars, svars, a_method, a_env>>

DataRequest(endpoint, p) ==
    [kind |-> "data", endpoint |-> endpoint, page |-> p, at |-> clock]

\* get_pull_requests, lines 87-89: while True / max_pages
LoopTest ==
    /\ a_pc = "loop"
    /\ a_pc' = IF a_env.max_pages # None /\ a_page > a_env.max_pages[1]
               THEN "done" ELSE "check"
    /\ UNCHANGED <<nonapi, a_page, a_fpage, a_log, a_requested, a_frequested,
                   clock>>

\* _check_rate_limit, lines 38-53; in get_pull_request_files it is followed
\* by page = 1 (lines 151-156)
QuotaQuery ==
    /\ a_pc \in {"check", "files_check"}
    /\ \E answer \in QuotaAnswers(clock) :
          LET low == SelectSeq(a_log, LAMBDA r :
                        r.kind = "quota" /\ r.remaining < rate_limit_buffer)
              slept == check_rate_limit(answer.remaining, answer.reset, clock)
          IN  /\ answer.remaining < rate_limit_buffer => Len(low) < MaxLow
              /\ a_log' = Append(a_log,
                    [kind |-> "quota", remaining |-> answer.remaining,
                     reset |-> answer.reset, at |-> clock, slept |-> slept])
              /\ clock' = clock + slept
    /\ IF a_pc = "check"
       THEN /\ a_pc' = "get"
            /\ UNCHANGED <<a_fpage, a_frequested>>
       ELSE /\ a_pc' = "files_get"
            /\ a_fpage' = 1
            /\ a_frequested' = <<>>
    /\ UNCHANGED <<nonapi, a_page, a_requested>>

\* get_pull_request, lines 129-132; get_file_content, lines 201-203
GetOne ==
    /\ a_pc = "get"
    /\ a_method \in {"get_pull_request", "get_file_content"}
    /\ a_log' = Append(a_log,
          DataRequest(IF a_method = "get_pull_request" THEN "pull"
                      ELSE "contents", 1))
    /\ a_pc' = "done"
    /\ UNCHANGED <<nonapi, a_page, a_fpage, a_requested, a_frequested, clock>>

PullsResponse == ApiPage(a_env.n_pages, a_env.trailing, a_page)

\* get_pull_requests, lines 93-110: one page of the listing
PullsPage_repeat ==
    /\ a_pc = "get"
    /\ a_method = "get_pull_requests"
    /\ a_log' = Append(a_log, DataRequest("pulls", a_page))
    /\ a_requested' = Append(a_requested, PullsResponse)
    /\ IF PullsResponse.items = 0
       THEN a_pc' = "done" /\ a_page' = a_page
       ELSE a_pc' = "loop" /\ a_page' = a_page + 1
    /\ UNCHANGED <<nonapi, a_fpage, a_frequested, clock>>

PullsPage ==
    /\ a_pc = "get"
    /\ a_method = "get_pull_requests"
    /\ a_log' = Append(a_log, DataRequest("pulls", a_page))
    /\ a_requested' = Append(a_requested, PullsResponse)
    /\ IF PullsResponse.items = 0 \/ ~ PullsResponse.has_next
       THEN a_pc' = "done" /\ a_page' = a_page
       ELSE a_pc' = "loop" /\ a_page' = a_page + 1
    /\ UNCHANGED <<nonapi, a_fpage, a_frequested, clock>>

\* scrape_repository, lines 171-193: one page of the listing
ScrapePage ==
    /\ a_pc = "get"
    /\ a_method = "scrape_repository"
    /\ a_log' = Append(a_log, DataRequest("pulls", a_page))
    /\ a_requested' = Append(a_requested, PullsResponse)
    /\ a_pc' = IF PullsResponse.items = 0 THEN "done" ELSE "for"
    /\ UNCHANGED <<nonapi, a_page, a_fpage, a_frequested, clock>>

\* scrape_repository, lines 196-204: the PR is already processed, or the
\* target is reached: no request
ForSkip ==
    /\ a_pc = "for"
    /\ a_pc' = "after_for"
    /\ UNCHANGED <<nonapi, a_page, a_fpage, a_log, a_requested, a_frequested,
                   clock>>

\* scrape_repository, lines 208-210: github.get_pull_request_files(...)
ForFetch ==
    /\ a_pc = "for"
    /\ a_pc' = "files_check"
    /\ UNCHANGED <<nonapi, a_page, a_fpage, a_log, a_requested, a_frequested,
                   clock>>

FilesResponse == ApiPage(a_env.n_fpages, a_env.ftrailing, a_fpage)

\* get_pull_request_files, lines 158-175: one page of the file list
FilesPage ==
    /\ a_pc = "files_get"
    /\ a_log' = Append(a_log, DataRequest("files", a_fpage))
    /\ a_frequested' = Append(a_frequested, FilesResponse)
    /\ IF FilesResponse.items = 0 \/ ~ FilesResponse.has_next
       THEN /\ a_pc' = IF a_method = "scrape_repository" THEN "judge"
                       ELSE "done"
            /\ a_fpage' = a_fpage
       ELSE /\ a_pc' = "files_get"
            /\ a_fpage' = a_fpage + 1
    /\ UNCHANGED <<nonapi, a_page, a_requested, clock>>

\* scrape_repository, lines 217-270: the candidate is judged; "too old"
\* returns, anything else goes on
Judge ==
    /\ a_pc = "judge"
    /\ \E too_old \in BOOLEAN :
          a_pc' = IF too_old THEN "done" ELSE "after_for"
    /\ UNCHANGED <<nonapi, a_page, a_fpage, a_log, a_requested, a_frequested,
                   clock>>

\* scrape_repository, lines 272-286: target or cap reached, no next link,
\* or page += 1
AfterFor ==
    /\ a_pc = "after_for"
    /\ \E target_or_cap \in BOOLEAN :
          IF target_or_cap \/ ~ a_requested[Len(a_requested)].has_next
          THEN a_pc' = "done" /\ a_page' = a_page
          ELSE a_pc' = "check" /\ a_page' = a_page + 1
    /\ UNCHANGED <<nonapi, a_fpage, a_log, a_requested, a_frequested, clock>>

InitFilter ==
    /\ now = NowDay
    /\ FilterInit
    /\ EvalIdle
    /\ ReportIdle
    /\ ApiIdle
    /\ ScrapeIdle

(***************************************************************************)
(* C1: filter_pr returns exactly one outcome, (True, None) or              *)
(* (False, reason), and the reason is that of the earliest failing check   *)
(* in the order not merged, created too late, too old, too few files, too  *)
(* many files, insufficient description, only excluded file types,         *)
(* trivial changes.                                                        *)
(***************************************************************************)
FailingChecks(pr, files, config, t) ==
    {k \in 1..8 : CheckFails(k, pr, files, config, t)}

Least(S) == CHOOSE k \in S : \A j \in S : k <= j

C1_EarliestFailingCheckWins ==
    f_pc = "done" =>
        LET F == FailingChecks(f_pr, f_files, f_config, f_at)
        IN  /\ f_out[1] \in BOOLEAN
            /\ f_out[1] <=> (f_out[2] = None)
            /\ f_out[1] <=> (F = {})
            /\ F # {} => IsPrefix(ReasonHead(Least(F)), f_out[2])

\* A candidate failing both the merged check and the file-count check is
\* reported as not merged.
C1_Witness ==
    /\ f_pc = "done"
    /\ {1, 4} \subseteq FailingChecks(f_pr, f_files, f_config, f_at)
    /\ f_out = <<FALSE, <<"not", "merged">> >>

NextFilter == FilterCall \/ Tick

vars == <<now, fvars, evars, rvars, avars, svars>>

InitEval ==
    /\ now = NowDay
    /\ FilterIdle
    /\ EvalInit
    /\ ReportIdle
    /\ ApiIdle
    /\ ScrapeIdle

NextEval == EvalCall

SpecEval == InitEval /\ [][NextEval]_vars

(***************************************************************************)
(* C9: for a current-format response whose three sub-scores are integers   *)
(* in 0..10, raw_score = 2*factual_correctness + fact_coverage +           *)
(* specificity, 0 <= raw_score <= 40, score = raw_score/40, 0 <= score <= 1*)
(***************************************************************************)
SubScoreInRange(scores, k) ==
    /\ k \in DOMAIN scores
    /\ scores[k].t = "num"
    /\ scores[k].v \in 0..10

CurrentFormatInRange ==
    /\ e_response.kind = "json"
    /\ "scores" \in DOMAIN e_response.result
    /\ \A k \in {"factual_correctness", "fact_coverage", "specificity"} :
          SubScoreInRange(e_response.result["scores"], k)

C9_WeightedScore ==
    (e_pc = "done" /\ CurrentFormatInRange) =>
        LET sc == e_response.result["scores"]
            raw == 2 * sc["factual_correctness"].v + sc["fact_coverage"].v
                     + sc["specificity"].v
        IN  /\ "error" \notin DOMAIN e_result
            /\ e_result["raw_score"] = raw
            /\ 0 <= raw /\ raw <= 40
            /\ e_result["score"].num * 40 = raw * e_result["score"].den
            /\ 0 <= e_result["score"].num
            /\ e_result["score"].num <= e_result["score"].den

\* 8, 6, 4 gives raw_score 26 and score 26/40 = 0.65 (65/100).
C9_Witness ==
    /\ e_pc = "done"
    /\ CurrentFormatInRange
    /\ e_response.result["scores"]["factual_correctness"].v = 8
    /\ e_response.result["scores"]["fact_coverage"].v = 6
    /\ e_response.result["scores"]["specificity"].v = 4
    /\ e_result["raw_score"] = 26
    /\ e_result["score"].num * 100 = 65 * e_result["score"].den

(***************************************************************************)
(* C10: when specificity is "N/A", null or missing from the scores object, *)
(* it counts as 0 in the weighted sum and specificity_na is true; when it  *)
(* is a number, specificity_na is false.                                   *)
(***************************************************************************)
FactualAndCoverageNumeric ==
    /\ e_response.kind = "json"
    /\ "scores" \in DOMAIN e_response.result
    /\ \A k \in {"factual_correctness", "fact_coverage"} :
          /\ k \in DOMAIN e_response.result["scores"]
          /\ e_response.result["scores"][k].t = "num"

C10_SpecificitySentinel ==
    (e_pc = "done" /\ FactualAndCoverageNumeric) =>
        LET sc == e_response.result["scores"]
        IN  /\ IsNASentinelOrMissing(sc) =>
                /\ "error" \notin DOMAIN e_result
                /\ e_result["specificity_na"] = TRUE
                /\ e_result["raw_score"] =
                      2 * sc["factual_correctness"].v + sc["fact_coverage"].v
            /\ ("specificity" \in DOMAIN sc /\ sc["specificity"].t = "num") =>
                /\ "error" \notin DOMAIN e_result
                /\ e_result["specificity_na"] = FALSE


SpecFilter == InitFilter /\ [][NextFilter]_vars

(***************************************************************************)
(* scrape_repository.                                                      *)
(*                                                                         *)
(* The upstream listing is head \o tail: `head` is a sequence of candidate *)
(* PRs and `tail` the number of unmerged PRs that follow it.  A candidate  *)
(* carries what the listing returns for it (number, merged_at, created_at, *)
(* body) and what its file-list endpoint answers (files, or an error).     *)
(***************************************************************************)
max_prs_to_check == 500

MaxListing == 3      \* longest listing head drawn with all kinds of candidates
MaxRuns == 2         \* scrape_repository is started at most this many times
MaxTarget == 2       \* largest max_prs_per_repo
MaxPerPage == 2      \* largest per_page
MaxInterval == 2     \* largest checkpoint_interval
MaxFailPage == 2     \* the failing request is on one of the first pages

PyChange == [filename |-> PyFile, changes |-> 6]
Kinds ==
    {[merged_at |-> Some(NowDay - 1), files |-> <<PyChange>>, fetch |-> "ok"],
     [merged_at |-> None, files |-> <<PyChange>>, fetch |-> "ok"],
     [merged_at |-> Some(NowDay - 31), files |-> <<PyChange>>, fetch |-> "ok"],
     [merged_at |-> Some(NowDay - 1), files |-> <<>>, fetch |-> "ok"],
     [merged_at |-> Some(NowDay - 1), files |-> <<PyChange>>, fetch |-> "error"]}
Unmerged == [merged_at |-> None, files |-> <<PyChange>>, fetch |-> "ok"]

Candidate(kind, number) ==
    [number |-> number, merged_at |-> kind.merged_at,
     created_at |-> Some(NowDay - 31), body |-> <<>>,
     files |-> kind.files, fetch |-> kind.fetch]

\* Heads with distinct PRs, numbered in listing order.
PlainHeads(n) ==
    {[j \in 1..Len(ks) |-> Candidate(ks[j], j)] : ks \in SeqsUpTo(Kinds, n)}
\* Heads in which the API lists one PR a second time, on a later position.
WellFormedRepeats(n) ==
    UNION {{Append(h, h[j]) : j \in 1..Len(h)} : h \in PlainHeads(n)}

ListingLen == Len(listing.head) + listing.tail
ListingAt(j) ==
    IF j <= Len(listing.head) THEN listing.head[j]
    ELSE Candidate(Unmerged, j)

ScrapeFilters ==
    [merged_only |-> TRUE, created_before |-> None, max_age_months |-> Some(1),
     min_files_changed |-> 1, max_files_changed |-> 2,
     require_description |-> FALSE, min_description_length |-> 2,
     exclude_patterns |-> << <<"*", ".", "m", "d">> >>]

ScrapeConfigs ==
    {[pr_filters |-> ScrapeFilters, scraping |-> sc] : sc \in
        [max_prs_per_repo : 1..MaxTarget, per_page : 1..MaxPerPage,
         checkpoint_interval : 1..MaxInterval]}

FailAts == {None} \cup {<<p, c>> : p \in 1..MaxFailPage, c \in {"quota", "listing"}}

\* Short listings of every composition under every configuration; the same
\* listings with one request that raises, under the configurations that
\* save least often and those that save at every accepted record; and
\* listings long enough for the cap on examined candidates to be reached.
ShortListings ==
    {[head |-> h, tail |-> 0] :
        h \in PlainHeads(MaxListing) \cup WellFormedRepeats(MaxListing - 1)}
RareSaveConfigs ==
    {c \in ScrapeConfigs : /\ c.scraping.max_prs_per_repo = MaxTarget
                           /\ c.scraping.checkpoint_interval = MaxInterval}
EverySaveConfigs ==
    {c \in ScrapeConfigs : /\ c.scraping.max_prs_per_repo = MaxTarget
                           /\ c.scraping.checkpoint_interval = 1}
ShortScenarios ==
    {[listing |-> l, config |-> c, fail_at |-> None] :
        l \in ShortListings, c \in ScrapeConfigs}
FailingScenarios ==
    {[listing |-> l, config |-> c, fail_at |-> fa] :
        l \in ShortListings, c \in RareSaveConfigs \cup EverySaveConfigs,
        fa \in FailAts \ {None}}
LongScenarios ==
    {[listing |-> [head |-> h, tail |-> max_prs_to_check + 1], config |-> c,
      fail_at |-> None] :
        h \in PlainHeads(1),
        c \in {x \in ScrapeConfigs : /\ x.scraping.max_prs_per_repo = MaxTarget
                                     /\ x.scraping.checkpoint_interval = 1}}
Scenarios == ShortScenarios \cup FailingScenarios \cup LongScenarios

max_prs == s_config.scraping.max_prs_per_repo
per_page == s_config.scraping.per_page
checkpoint_interval == s_config.scraping.checkpoint_interval

\* list(processed_prs), written in ascending order (the order Python gives
\* the list is unspecified; only its elements are read back), and
\* set(checkpoint["processed_pr_numbers"])
Max(S) == CHOOSE x \in S : \A y \in S : y <= x
SetToList(S) ==
    IF S = {} THEN <<>>
    ELSE SelectSeq([k \in 1..Max(S) |-> k], LAMBDA k : k \in S)
ListToSet(l) == {l[j] : j \in 1..Len(l)}

\* save_checkpoint: the contents written to checkpoint.json
save_checkpoint_processed_only(processed, filtered) ==
    Some([processed_pr_numbers |-> SetToList(processed),
          filtered_prs |-> <<>>,
          last_updated |-> now])

save_checkpoint(processed, filtered) ==
    Some([processed_pr_numbers |-> SetToList(processed),
          filtered_prs |-> filtered,
          last_updated |-> now])

\* The page the listing endpoint returns for params["page"] = p.
PageOf(p) ==
    LET first == (p - 1) * per_page + 1
        last == IF p * per_page < ListingLen THEN p * per_page ELSE ListingLen
    IN  [j \in 1..(IF last >= first THEN last - first + 1 ELSE 0) |->
            ListingAt(first + j - 1)]
HasNextLink(p) == p * per_page < ListingLen

RECURSIVE IsInfix(_, _)
IsInfix(needle, hay) ==
    \/ IsPrefix(needle, hay)
    \/ (hay # <<>> /\ IsInfix(needle, Tail(hay)))

\* `"too old" in reason`
StopsScan_too(r) == IsInfix(<<"too">>, r)
StopsScan_never(r) == FALSE
StopsScan(r) == IsInfix(<<"too", "old">>, r)

pr_data(pr, files) ==
    [pr_number |-> pr.number, merged_at |-> pr.merged_at,
     created_at |-> pr.created_at, files |-> files, num_files |-> Len(files),
     scraped_at |-> now]

Init ==
    /\ now = NowDay
    /\ FilterIdle
    /\ EvalIdle
    /\ ReportIdle
    /\ ApiIdle
    /\ \E sc \in Scenarios :
          /\ listing = sc.listing
          /\ s_config = sc.config
          /\ fail_at = sc.fail_at
    /\ checkpoint = None
    /\ s_pc = "start"
    /\ run = 1
    /\ processed_prs = {}
    /\ filtered_data = <<>>
    /\ included_count = 0
    /\ skipped_count = 0
    /\ page = 0
    /\ total_fetched = 0
    /\ total_checked = 0
    /\ prs = <<>>
    /\ has_next = FALSE
    /\ pr_index = 0
    /\ reason = None
    /\ at_start = None
    /\ prev_end = "none"
    /\ stop = "none"
    /\ fetch_failed = {}

others == <<now, fvars, evars, rvars, avars, envvars, run, prev_end>>

\* Lines 140-164 with the checkpoint ignored
LoadCheckpoint_fresh ==
    /\ s_pc = "start"
    /\ processed_prs' = {}
    /\ filtered_data' = <<>>
    /\ included_count' = 0
    /\ skipped_count' = 0
    /\ page' = 1
    /\ total_fetched' = 0
    /\ total_checked' = 0
    /\ s_pc' = "while"
    /\ at_start' = checkpoint
    /\ UNCHANGED <<others, checkpoint, prs, has_next, pr_index, reason, stop,
                   fetch_failed>>

\* Lines 140-164: load the checkpoint if it exists, reset the counters.
LoadCheckpoint ==
    /\ s_pc = "start"
    /\ IF checkpoint # None
       THEN /\ processed_prs' = ListToSet(checkpoint[1].processed_pr_numbers)
            /\ filtered_data' = checkpoint[1].filtered_prs
       ELSE /\ processed_prs' = {}
            /\ filtered_data' = <<>>
    /\ included_count' = 0
    /\ skipped_count' = 0
    /\ page' = 1
    /\ total_fetched' = 0
    /\ total_checked' = 0
    /\ s_pc' = "while"
    /\ at_start' = checkpoint
    /\ UNCHANGED <<others, checkpoint, prs, has_next, pr_index, reason, stop,
                   fetch_failed>>

\* Line 167: while included_count < max_prs
WhileTest ==
    /\ s_pc = "while"
    /\ IF included_count < max_prs
       THEN s_pc' = "rate_limit" /\ stop' = stop
       ELSE s_pc' = "final_save" /\ stop' = "target"
    /\ UNCHANGED <<others, checkpoint, locals, at_start, fetch_failed>>

Raises(call) == run = 1 /\ fail_at = <<page, call>>

\* Line 169: github._check_rate_limit() returns
CheckRateLimit ==
    /\ s_pc = "rate_limit"
    /\ ~ Raises("quota")
    /\ s_pc' = "get"
    /\ UNCHANGED <<others, checkpoint, locals, histvars>>

\* Line 169: the quota query raises (raise_for_status in _check_rate_limit)
CheckRateLimitRaises ==
    /\ s_pc = "rate_limit"
    /\ Raises("quota")
    /\ s_pc' = "raised"
    /\ UNCHANGED <<others, checkpoint, locals, histvars>>

\* Lines 181-182: the listing request raises
GetPageRaises ==
    /\ s_pc = "get"
    /\ Raises("listing")
    /\ s_pc' = "raised"
    /\ UNCHANGED <<others, checkpoint, locals, histvars>>

\* Lines 181-187: the page is empty
GetPageEmpty ==
    /\ s_pc = "get"
    /\ ~ Raises("listing")
    /\ PageOf(page) = <<>>
    /\ prs' = <<>>
    /\ has_next' = HasNextLink(page)
    /\ s_pc' = "final_save"
    /\ stop' = "empty_page"
    /\ UNCHANGED <<others, checkpoint, processed_prs, filtered_data,
                   included_count, skipped_count, page, total_fetched,
                   total_checked, pr_index, reason, at_start, fetch_failed>>

\* Lines 181-193: a page of PRs is retrieved
GetPage ==
    /\ s_pc = "get"
    /\ ~ Raises("listing")
    /\ PageOf(page) # <<>>
    /\ prs' = PageOf(page)
    /\ has_next' = HasNextLink(page)
    /\ total_fetched' = total_fetched + Len(PageOf(page))
    /\ pr_index' = 1
    /\ s_pc' = "for"
    /\ UNCHANGED <<others, checkpoint, processed_prs, filtered_data,
                   included_count, skipped_count, page, total_checked, reason,
                   histvars>>

InFor == s_pc = "for" /\ pr_index <= Len(prs)
pr == prs[pr_index]
pr_number == pr.number

\* Lines 196-199: skip if already processed
SkipProcessed ==
    /\ InFor
    /\ pr_number \in processed_prs
    /\ pr_index' = pr_index + 1
    /\ UNCHANGED <<others, checkpoint, s_pc, processed_prs, filtered_data,
                   included_count, skipped_count, page, total_fetched,
                   total_checked, prs, has_next, reason, histvars>>

\* Lines 201-204: stop if we've reached the limit
BreakTarget ==
    /\ InFor
    /\ pr_number \notin processed_prs
    /\ included_count >= max_prs
    /\ s_pc' = "after_for"
    /\ UNCHANGED <<others, checkpoint, locals, histvars>>

\* Lines 196-204 without the test of the target inside the for loop
Examined_nolimit ==
    /\ InFor
    /\ pr_number \notin processed_prs

Examined ==
    /\ InFor
    /\ pr_number \notin processed_prs
    /\ included_count < max_prs

\* Lines 209-217 with the failed candidate counted as examined
FetchError_counted ==
    /\ Examined
    /\ pr.fetch = "error"
    /\ processed_prs' = processed_prs \cup {pr_number}
    /\ total_checked' = total_checked + 1
    /\ pr_index' = pr_index + 1
    /\ fetch_failed' = fetch_failed \cup {pr_number}
    /\ UNCHANGED <<others, checkpoint, s_pc, filtered_data, included_count,
                   skipped_count, page, total_fetched, prs, has_next, reason,
                   at_start, stop>>

\* Lines 209-214: get_pull_request_files raises
FetchError ==
    /\ Examined
    /\ pr.fetch = "error"
    /\ processed_prs' = processed_prs \cup {pr_number}
    /\ pr_index' = pr_index + 1
    /\ fetch_failed' = fetch_failed \cup {pr_number}
    /\ UNCHANGED <<others, checkpoint, s_pc, filtered_data, included_count,
                   skipped_count, page, total_fetched, total_checked, prs,
                   has_next, reason, at_start, stop>>

Outcome == filter_pr(pr, pr.files, s_config, now)

\* Lines 217-231: excluded as too old: save the checkpoint and return
RejectTooOld_nosave ==
    /\ Examined
    /\ pr.fetch = "ok"
    /\ ~ Outcome[1]
    /\ StopsScan(Outcome[2])
    /\ total_checked' = total_checked + 1
    /\ reason' = Outcome[2]
    /\ skipped_count' = skipped_count + 1
    /\ processed_prs' = processed_prs \cup {pr_number}
    /\ s_pc' = "done"
    /\ stop' = "too_old"
    /\ UNCHANGED <<others, checkpoint, filtered_data, included_count, page,
                   total_fetched, prs, has_next, pr_index, at_start,
                   fetch_failed>>

RejectTooOld ==
    /\ Examined
    /\ pr.fetch = "ok"
    /\ ~ Outcome[1]
    /\ StopsScan(Outcome[2])
    /\ total_checked' = total_checked + 1
    /\ reason' = Outcome[2]
    /\ skipped_count' = skipped_count + 1
    /\ processed_prs' = processed_prs \cup {pr_number}
    /\ checkpoint' = save_checkpoint(processed_prs', filtered_data)
    /\ s_pc' = "done"
    /\ stop' = "too_old"
    /\ UNCHANGED <<others, filtered_data, included_count, page, total_fetched,
                   prs, has_next, pr_index, at_start, fetch_failed>>

\* Lines 217-233: excluded for another reason: continue
RejectContinue_unmarked ==
    /\ Examined
    /\ pr.fetch = "ok"
    /\ ~ Outcome[1]
    /\ ~ StopsScan(Outcome[2])
    /\ total_checked' = total_checked + 1
    /\ reason' = Outcome[2]
    /\ skipped_count' = skipped_count + 1
    /\ pr_index' = pr_index + 1
    /\ UNCHANGED <<others, checkpoint, s_pc, processed_prs, filtered_data,
                   included_count, page, total_fetched, prs, has_next, histvars>>

RejectContinue ==
    /\ Examined
    /\ pr.fetch = "ok"
    /\ ~ Outcome[1]
    /\ ~ StopsScan(Outcome[2])
    /\ total_checked' = total_checked + 1
    /\ reason' = Outcome[2]
    /\ skipped_count' = skipped_count + 1
    /\ processed_prs' = processed_prs \cup {pr_number}
    /\ pr_index' = pr_index + 1
    /\ UNCHANGED <<others, checkpoint, s_pc, filtered_data, included_count,
                   page, total_fetched, prs, has_next, histvars>>

\* Lines 217-270: included; the checkpoint is saved every checkpoint_interval
Accept_unmarked ==
    /\ Examined
    /\ pr.fetch = "ok"
    /\ Outcome[1]
    /\ total_checked' = total_checked + 1
    /\ reason' = Outcome[2]
    /\ filtered_data' = Append(filtered_data, pr_data(pr, pr.files))
    /\ included_count' = included_count + 1
    /\ checkpoint' = IF included_count' % checkpoint_interval = 0
                     THEN save_checkpoint(processed_prs, filtered_data')
                     ELSE checkpoint
    /\ pr_index' = pr_index + 1
    /\ UNCHANGED <<others, s_pc, processed_prs, skipped_count, page,
                   total_fetched, prs, has_next, histvars>>

\* Lines 217-270 with the periodic save tested on the count before the
\* increment of line 264
Accept_stale_save ==
    /\ Examined
    /\ pr.fetch = "ok"
    /\ Outcome[1]
    /\ total_checked' = total_checked + 1
    /\ reason' = Outcome[2]
    /\ filtered_data' = Append(filtered_data, pr_data(pr, pr.files))
    /\ processed_prs' = processed_prs \cup {pr_number}
    /\ included_count' = included_count + 1
    /\ checkpoint' = IF included_count % checkpoint_interval = 0
                     THEN save_checkpoint(processed_prs', filtered_data')
                     ELSE checkpoint
    /\ pr_index' = pr_index + 1
    /\ UNCHANGED <<others, s_pc, skipped_count, page, total_fetched, prs,
                   has_next, histvars>>

Accept ==
    /\ Examined
    /\ pr.fetch = "ok"
    /\ Outcome[1]
    /\ total_checked' = total_checked + 1
    /\ reason' = Outcome[2]
    /\ filtered_data' = Append(filtered_data, pr_data(pr, pr.files))
    /\ processed_prs' = processed_prs \cup {pr_number}
    /\ included_count' = included_count + 1
    /\ checkpoint' = IF included_count' % checkpoint_interval = 0
                     THEN save_checkpoint(processed_prs', filtered_data')
                     ELSE checkpoint
    /\ pr_index' = pr_index + 1
    /\ UNCHANGED <<others, s_pc, skipped_count, page, total_fetched, prs,
                   has_next, histvars>>

\* Line 193: the page is exhausted
ForEnd ==
    /\ s_pc = "for"
    /\ pr_index > Len(prs)
    /\ s_pc' = "after_for"
    /\ UNCHANGED <<others, checkpoint, locals, histvars>>

\* Lines 272-274: stop if we've found enough good PRs
StopTarget ==
    /\ s_pc = "after_for"
    /\ included_count >= max_prs
    /\ s_pc' = "final_save"
    /\ stop' = "target"
    /\ UNCHANGED <<others, checkpoint, locals, at_start, fetch_failed>>

\* Lines 276-279: stop if we've checked too many PRs
StopCap ==
    /\ s_pc = "after_for"
    /\ included_count < max_prs
    /\ total_checked >= max_prs_to_check
    /\ s_pc' = "final_save"
    /\ stop' = "cap"
    /\ UNCHANGED <<others, checkpoint, locals, at_start, fetch_failed>>

\* Lines 281-284: no more pages
StopNoNext ==
    /\ s_pc = "after_for"
    /\ included_count < max_prs
    /\ total_checked < max_prs_to_check
    /\ ~ has_next
    /\ s_pc' = "final_save"
    /\ stop' = "no_next"
    /\ UNCHANGED <<others, checkpoint, locals, at_start, fetch_failed>>

\* Line 286: page += 1
NextPage ==
    /\ s_pc = "after_for"
    /\ included_count < max_prs
    /\ total_checked < max_prs_to_check
    /\ has_next
    /\ page' = page + 1
    /\ s_pc' = "while"
    /\ UNCHANGED <<others, checkpoint, processed_prs, filtered_data,
                   included_count, skipped_count, total_fetched, total_checked,
                   prs, has_next, pr_index, reason, histvars>>

\* Lines 288-297: final save, return filtered_data
FinalSave ==
    /\ s_pc = "final_save"
    /\ checkpoint' = save_checkpoint(processed_prs, filtered_data)
    /\ s_pc' = "done"
    /\ UNCHANGED <<others, locals, histvars>>

\* scrape_repository is started again on the same repository (a re-run of
\* the scraper after it returned or after the exception ended it).
Rerun ==
    /\ s_pc \in {"done", "raised"}
    /\ run < MaxRuns
    /\ run' = run + 1
    /\ prev_end' = s_pc
    /\ s_pc' = "start"
    /\ stop' = "none"
    /\ UNCHANGED <<now, fvars, evars, rvars, avars, envvars, checkpoint, locals,
                   at_start, fetch_failed>>

Next ==
    \/ LoadCheckpoint \/ WhileTest
    \/ CheckRateLimit \/ CheckRateLimitRaises
    \/ GetPageRaises \/ GetPageEmpty \/ GetPage
    \/ SkipProcessed \/ BreakTarget \/ FetchError
    \/ RejectTooOld \/ RejectContinue \/ Accept
    \/ ForEnd \/ StopTarget \/ StopCap \/ StopNoNext \/ NextPage
    \/ FinalSave \/ Rerun

Spec == Init /\ [][Next]_vars

(***************************************************************************)
(* The filter rejects the candidate the for loop is at.                    *)
(***************************************************************************)
FilterRejectsCurrent ==
    /\ s_pc = "for"
    /\ pr_index <= Len(prs)
    /\ prs[pr_index].number \notin processed_prs
    /\ included_count < max_prs
    /\ prs[pr_index].fetch = "ok"
    /\ ~ filter_pr(prs[pr_index], prs[pr_index].files, s_config, now)[1]

RejectedAsTooOld ==
    /\ FilterRejectsCurrent
    /\ IsPrefix(ReasonHead(3),
                filter_pr(prs[pr_index], prs[pr_index].files, s_config, now)[2])

\* Position in the listing of the candidate the for loop is at.
Position == (page - 1) * per_page + pr_index

(***************************************************************************)
(* C2: a rejection with reason too-old always stops the scan (the run is   *)
(* over: no later candidate is examined, no further page is requested);    *)
(* a rejection with any other reason never stops it: the collector goes on *)
(* with the next candidate.                                                *)
(***************************************************************************)
C2_OnlyTooOldStopsTheScan ==
    [][/\ RejectedAsTooOld =>
            /\ s_pc' = "done"
            /\ page' = page /\ pr_index' = pr_index /\ prs' = prs
       /\ (FilterRejectsCurrent /\ ~ RejectedAsTooOld) =>
            /\ s_pc' = "for"
            /\ page' = page /\ pr_index' = pr_index + 1 /\ prs' = prs
       /\ s_pc = "done" => (run' = run + 1 /\ s_pc' = "start")]_vars

\* The scan stopped on a too-old candidate with candidates and a page left,
\* after a rejection for another reason had let it go on.
C2_Witness ==
    /\ s_pc = "done"
    /\ stop = "too_old"
    /\ skipped_count >= 2
    /\ Position < ListingLen
    /\ has_next

(***************************************************************************)
(* C3: whenever scrape_repository returns, through any stop condition, the *)
(* checkpoint written last contains exactly the processed-id set and the   *)
(* accepted-record list held in memory.                                    *)
(***************************************************************************)
C3_CheckpointMatchesMemoryAtReturn ==
    s_pc = "done" =>
        /\ checkpoint # None
        /\ ListToSet(checkpoint[1].processed_pr_numbers) = processed_prs
        /\ Len(checkpoint[1].processed_pr_numbers) = Cardinality(processed_prs)
        /\ checkpoint[1].filtered_prs = filtered_data

\* A run that the cap on examined candidates ended, with a record accepted.
C3_Witness ==
    /\ s_pc = "done"
    /\ stop = "cap"
    /\ total_checked >= max_prs_to_check
    /\ filtered_data # <<>>

(***************************************************************************)
(* C4: if a run is interrupted (an error propagating from the quota query  *)
(* or the listing request), the persisted checkpoint contains every id     *)
(* marked processed and every record accepted before the interruption.     *)
(***************************************************************************)
C4_NoProgressLostOnInterruption ==
    s_pc = "raised" =>
        IF checkpoint = None
        THEN processed_prs = {} /\ filtered_data = <<>>
        ELSE /\ processed_prs \subseteq ListToSet(checkpoint[1].processed_pr_numbers)
             /\ \A j \in 1..Len(filtered_data) :
                   \E m \in 1..Len(checkpoint[1].filtered_prs) :
                       checkpoint[1].filtered_prs[m] = filtered_data[j]

(***************************************************************************)
(* C5: re-running with the checkpoint left by a completed run is a no-op:  *)
(* the processed-id set and the accepted-record list in the checkpoint     *)
(* after the second run equal those after the first run, whichever stop    *)
(* condition ended the first run.                                          *)
(***************************************************************************)
C5_RerunIsNoOp ==
    (s_pc = "done" /\ prev_end = "done") =>
        /\ ListToSet(checkpoint[1].processed_pr_numbers)
              = ListToSet(at_start[1].processed_pr_numbers)
        /\ checkpoint[1].filtered_prs = at_start[1].filtered_prs

(***************************************************************************)
(* C6: running twice with the same checkpoint and target never yields two  *)
(* accepted records with the same PR number, and the accepted list before  *)
(* the second run is a prefix of the accepted list after it.               *)
(***************************************************************************)
NoDuplicateRecords(recs) ==
    \A j, m \in 1..Len(recs) : recs[j].pr_number = recs[m].pr_number => j = m

C6_NoDuplicatesOrderKept ==
    s_pc \notin {"idle", "start"} =>
        /\ NoDuplicateRecords(filtered_data)
        /\ at_start # None => IsPrefix(at_start[1].filtered_prs, filtered_data)
        /\ checkpoint # None =>
              /\ NoDuplicateRecords(checkpoint[1].filtered_prs)
              /\ at_start # None =>
                    IsPrefix(at_start[1].filtered_prs, checkpoint[1].filtered_prs)

\* A second run that resumed from a checkpoint holding records, met a PR the
\* first run had already accepted, and accepted a further one.
C6_Witness ==
    /\ s_pc = "done"
    /\ run = 2
    /\ at_start # None
    /\ at_start[1].filtered_prs # <<>>
    /\ Len(filtered_data) > Len(at_start[1].filtered_prs)
    /\ checkpoint[1].filtered_prs = filtered_data

(***************************************************************************)
(* C7: in a run started from an empty checkpoint, with every file-list     *)
(* fetch succeeding and the target not reached earlier, if the k-th        *)
(* candidate of the listing is the first one rejected as too old, the      *)
(* collector stops right after it: the persisted checkpoint holds exactly  *)
(* the ids of the first k candidates and the returned list is exactly the  *)
(* accepted subset of those first k candidates, in listing order.          *)
(***************************************************************************)
FilterOf(j) == filter_pr(ListingAt(j), ListingAt(j).files, s_config, now)
TooOldAt(j) == ~ FilterOf(j)[1] /\ IsPrefix(ReasonHead(3), FilterOf(j)[2])
FirstListed(j) == \A m \in 1..(j - 1) : ListingAt(m).number # ListingAt(j).number
AcceptedAmongFirst(k) ==
    LET positions == SelectSeq([j \in 1..k |-> j],
                               LAMBDA j : FilterOf(j)[1] /\ FirstListed(j))
    IN  [n \in 1..Len(positions) |->
            pr_data(ListingAt(positions[n]), ListingAt(positions[n]).files)]

\* k is the first too-old candidate, every fetch up to it succeeds, and
\* neither the target nor the cap is reached before it.
FirstTooOldIs(k) ==
    /\ k \in 1..ListingLen
    /\ TooOldAt(k)
    /\ \A j \in 1..(k - 1) : ~ TooOldAt(j)
    /\ \A j \in 1..k : ListingAt(j).fetch = "ok"
    /\ Len(AcceptedAmongFirst(k)) < max_prs
    /\ k <= max_prs_to_check

C8_RejectionMarksProcessedOnly ==
    [][FilterRejectsCurrent =>
          /\ included_count' = included_count
          /\ filtered_data' = filtered_data
          /\ processed_prs' = processed_prs \cup {prs[pr_index].number}
          /\ Cardinality(processed_prs') = Cardinality(processed_prs) + 1]_vars

\* merged_at absent with merged_only set: rejected as not merged, and the
\* scan is at the next candidate.
C8_Witness ==
    /\ s_pc = "for"
    /\ pr_index > 1
    /\ s_config.pr_filters.merged_only
    /\ prs[pr_index - 1].merged_at = None
    /\ reason = <<"not", "merged">>
    /\ prs[pr_index - 1].number \in processed_prs
    /\ included_count = 0
    /\ filtered_data = <<>>

(***************************************************************************)
(* C11: evaluate_with_claude never raises on a malformed evaluator         *)
(* response: when the response is not parsable as JSON, or the parsed      *)
(* object has neither the scores shape nor the legacy score shape, or a    *)
(* required sub-score is absent with no legacy score to fall back on, the  *)
(* result has score 0 and error = true.                                    *)
(***************************************************************************)
RequiredSubScoreAbsent ==
    /\ e_response.kind = "json"
    /\ "scores" \in DOMAIN e_response.result
    /\ "score" \notin DOMAIN e_response.result
    /\ \E k \in {"factual_correctness", "fact_coverage"} :
          k \notin DOMAIN e_response.result["scores"]

MatchesNeitherShape ==
    /\ e_response.kind = "json"
    /\ "scores" \notin DOMAIN e_response.result
    /\ "score" \notin DOMAIN e_response.result

MalformedResponse ==
    \/ e_response.kind = "not_json"
    \/ MatchesNeitherShape
    \/ RequiredSubScoreAbsent

IsErrorResult ==
    /\ "error" \in DOMAIN e_result
    /\ e_result["error"] = TRUE
    /\ e_result["score"].num = 0

C11_MalformedGivesErrorResult ==
    (e_pc = "done" /\ MalformedResponse) => IsErrorResult

(***************************************************************************)
(* main of evaluate_generic.py: prepare the test cases, evaluate each,     *)
(* compute the statistics.                                                 *)
(***************************************************************************)
InitReport ==
    /\ now = NowDay
    /\ FilterIdle
    /\ EvalIdle
    /\ ReportInit
    /\ ApiIdle
    /\ ScrapeIdle

NextReport ==
    \/ PrepareRejects \/ PrepareRaises \/ Prepare
    \/ EvaluateNoAnswer \/ EvaluateCase
    \/ ReportNothing \/ ReportRaises \/ Report

SpecReport == InitReport /\ [][NextReport]_vars

(***************************************************************************)
(* C12: in generate_report every evaluation flagged error = true is        *)
(* excluded from the aggregate statistics: it is not counted in completed, *)
(* contributes to no average (score, raw score, factual, coverage,         *)
(* specificity, facts covered) and to no metadata breakdown, and is        *)
(* counted only in the error tally.                                        *)
(***************************************************************************)
ErrorIdx ==
    {i \in 1..Len(evaluations) :
        /\ "error" \in DOMAIN evaluations[i].evaluation
        /\ evaluations[i].evaluation["error"] = TRUE}
CompletedIdx == (1..Len(evaluations)) \ ErrorIdx

RECURSIVE NumSumOver(_, _)
NumSumOver(f, I) ==
    IF I = {} THEN 0
    ELSE LET i == CHOOSE x \in I : TRUE
         IN  f[i] + NumSumOver(f, I \ {i})

RECURSIVE FracSumOver(_, _)
FracSumOver(f, I) ==
    IF I = {} THEN Frac(0, 1)
    ELSE LET i == CHOOSE x \in I : TRUE
         IN  AddFrac(f[i], FracSumOver(f, I \ {i}))

EvalField(k) == [i \in 1..Len(evaluations) |-> evaluations[i].evaluation[k]]
EvalNumField(k) == [i \in 1..Len(evaluations) |-> evaluations[i].evaluation[k].v]
MetadataOf(i) == evaluations[i].test_case["metadata"]
ByField(key) ==
    CASE key = "difficulty" -> summary[1].by_difficulty
      [] key = "type" -> summary[1].by_type
      [] key = "scope" -> summary[1].by_scope

\* avg is the mean of f over the index set I
IsMeanOver(avg, f, I) ==
    avg.num * Cardinality(I) = NumSumOver(f, I) * avg.den

C12_ErrorsExcludedFromStatistics ==
    r_pc = "reported" =>
        LET s == summary[1]
            C == CompletedIdx
            S == {i \in C : ~ evaluations[i].evaluation["specificity_na"]}
            total == FracSumOver(EvalField("score"), C)
        IN  /\ s.completed = Cardinality(C)
            /\ s.errors = Cardinality(ErrorIdx)
            /\ FracEq(s.average_score, Frac(total.num, total.den * Cardinality(C)))
            /\ IsMeanOver(s.average_raw_score, EvalField("raw_score"), C)
            /\ IsMeanOver(s.average_factual_correctness,
                          EvalNumField("factual_correctness"), C)
            /\ IsMeanOver(s.average_fact_coverage,
                          EvalNumField("fact_coverage"), C)
            /\ IsMeanOver(s.average_facts_covered, EvalField("facts_covered"), C)
            /\ IF S = {} THEN s.average_specificity.num = 0
               ELSE IsMeanOver(s.average_specificity, EvalField("specificity"), S)
            /\ s.specificity_na_count = Cardinality(C \ S)
            /\ \A key \in {"difficulty", "type", "scope"} :
                  LET Carriers(v) ==
                          {i \in C : /\ key \in DOMAIN MetadataOf(i)
                                     /\ MetadataOf(i)[key] = v}
                  IN  /\ DOMAIN ByField(key) =
                            {MetadataOf(i)[key] :
                                i \in {j \in C : key \in DOMAIN MetadataOf(j)}}
                      /\ \A v \in DOMAIN ByField(key) :
                            /\ Len(ByField(key)[v]) = Cardinality(Carriers(v))
                            /\ FracEq(SumFracs(ByField(key)[v]),
                                      FracSumOver(EvalField("score"), Carriers(v)))

\* Three evaluations: one without a system answer (difficulty easy), one
\* whose response is not JSON, one scored 8, 6, 4.  The report counts one
\* completed and two errors, averages 26/40, and has no "easy" breakdown.
C12_Witness ==
    /\ r_pc = "reported"
    /\ Len(evaluations) = 3
    /\ Cardinality(ErrorIdx) = 2
    /\ \E i \in ErrorIdx :
          /\ evaluations[i].test_case["system_answer"] = ""
          /\ MetadataOf(i) = [difficulty |-> "easy"]
    /\ \E i \in ErrorIdx :
          evaluations[i].test_case["response"].kind = "not_json"
    /\ summary[1].completed = 1
    /\ summary[1].errors = 2
    /\ FracEq(summary[1].average_score, Frac(26, 40))
    /\ DOMAIN summary[1].by_difficulty = {}

(***************************************************************************)
(* C13: in every result of evaluate_with_claude, facts_covered never       *)
(* exceeds total_facts without being surfaced: a response whose            *)
(* facts_found list is longer than the facts list is reported as a         *)
(* problem (the result carries the error flag, the only flag a result      *)
(* has), not passed through as a completed result.                         *)
(***************************************************************************)
C13_FactsCoveredWithinTotal ==
    (e_pc = "done" /\ "facts_covered" \in DOMAIN e_result) =>
        \/ e_result["facts_covered"] <= e_result["total_facts"]
        \/ ("error" \in DOMAIN e_result /\ e_result["error"] = TRUE)

(***************************************************************************)
(* C14: the accepted-record list returned by scrape_repository, including  *)
(* the records restored from a checkpoint on resume, never contains more   *)
(* than max_prs_per_repo records.                                          *)
(***************************************************************************)
C14_ReturnedListWithinTarget ==
    s_pc = "done" => Len(filtered_data) <= max_prs

(***************************************************************************)
(* One call of a GitHubAPI method, or of the listing loop of               *)
(* scrape_repository.                                                      *)
(***************************************************************************)
InitApi ==
    /\ now = NowDay
    /\ FilterIdle
    /\ EvalIdle
    /\ ReportIdle
    /\ ApiInit
    /\ ScrapeIdle

NextApi ==
    \/ LoopTest \/ QuotaQuery \/ GetOne \/ PullsPage \/ ScrapePage
    \/ ForSkip \/ ForFetch \/ FilesPage \/ Judge \/ AfterFor

SpecApi == InitApi /\ [][NextApi]_vars

(***************************************************************************)
(* C15: every data request issued to the GitHub API (each listing page in  *)
(* scrape_repository and get_pull_requests, each file-list page in         *)
(* get_pull_request_files, get_pull_request, get_file_content) is preceded *)
(* by its own rate-limit query: no two data requests are issued without a  *)
(* quota query between them.                                               *)
(***************************************************************************)
C15_QuotaQueryBeforeEveryRequest ==
    \A i \in 1..Len(a_log) :
        a_log[i].kind = "data" => (i > 1 /\ a_log[i - 1].kind = "quota")

ConsecutiveFromOne(responses) ==
    \A i \in 1..Len(responses) : responses[i].page = i

NothingAfterLastPage(responses) ==
    \A i \in 1..Len(responses) :
        (responses[i].items = 0 \/ ~ responses[i].has_next) =>
            i = Len(responses)

C17_PagingStopsAtLastPage ==
    /\ ConsecutiveFromOne(a_requested)
    /\ NothingAfterLastPage(a_requested)
    /\ ConsecutiveFromOne(a_frequested)
    /\ NothingAfterLastPage(a_frequested)

\* scrape_repository over a listing of two pages, the file list of the last
\* candidate of two pages: pages 1 and 2 of each were requested and the
\* loop is over.
C17_Witness ==
    /\ a_method = "scrape_repository"
    /\ a_pc = "done"
    /\ Len(a_requested) = 2
    /\ a_requested[1].has_next
    /\ ~ a_requested[2].has_next
    /\ Len(a_frequested) = 2
    /\ a_frequested[1].has_next
    /\ ~ a_frequested[2].has_next

(***************************************************************************)
(* C18: validate_and_prepare_test_cases aborts with a ValueError, before   *)
(* any evaluation takes place, when the test-case list is empty or its     *)
(* first record lacks one of question, facts or the system-answer field;   *)
(* otherwise it returns one prepared case per input record, in input       *)
(* order.                                                                  *)
(***************************************************************************)
FirstRecordUnusable ==
    \/ test_cases_raw = <<>>
    \/ {"question", "facts", system_answer_field} \ DOMAIN test_cases_raw[1] # {}

C18_AbortsOrPreparesEveryRecord ==
    r_pc # "main" =>
        IF FirstRecordUnusable
        THEN r_pc = "exit" /\ evaluations = <<>>
        ELSE /\ r_pc # "exit"
             /\ Len(test_cases) = Len(test_cases_raw)
             /\ \A i \in 1..Len(test_cases) :
                   /\ test_cases[i]["question"] = test_cases_raw[i]["question"]
                   /\ test_cases[i]["facts"] = test_cases_raw[i]["facts"]
                   /\ test_cases[i]["response"] = test_cases_raw[i]["response"]

NextFilterTwice == FilterCall \/ FilterAgain \/ Tick

\* filter_pr called repeatedly on one candidate, files and config while the
\* clock runs.
SpecFilterTwice == InitFilter /\ [][NextFilterTwice]_vars

(***************************************************************************)
(* C19: filter_pr is a pure function of its inputs: it modifies none of    *)
(* candidate, files and config, and two evaluations with the same          *)
(* candidate, files and config always return the same outcome.             *)
(***************************************************************************)
C19_FilterIsPure ==
    [][/\ f_pr' = f_pr
       /\ f_files' = f_files
       /\ f_config' = f_config
       /\ (f_pc = "call" /\ f_calls >= 1) => f_out' = f_out]_vars

(***************************************************************************)
(* C20: when fetching a candidate's file list fails, the collector marks   *)
(* the candidate processed, counts it neither as accepted nor as rejected  *)
(* nor as examined, leaves the accepted list unchanged, and continues with *)
(* the next candidate of the same page.                                    *)
(***************************************************************************)
FetchFailsOnCurrent ==
    /\ s_pc = "for"
    /\ pr_index <= Len(prs)
    /\ prs[pr_index].number \notin processed_prs
    /\ included_count < max_prs
    /\ prs[pr_index].fetch = "error"

C20_FailedFetchSkipsCandidate ==
    [][FetchFailsOnCurrent =>
          /\ processed_prs' = processed_prs \cup {prs[pr_index].number}
          /\ included_count' = included_count
          /\ skipped_count' = skipped_count
          /\ total_checked' = total_checked
          /\ filtered_data' = filtered_data
          /\ s_pc' = "for"
          /\ page' = page
          /\ prs' = prs
          /\ pr_index' = pr_index + 1]_vars

\* The file list of the first candidate of a page could not be fetched: the
\* candidate is processed, nothing is counted, and the loop is at the second
\* candidate of the page.
C20_Witness ==
    /\ s_pc = "for"
    /\ run = 1
    /\ pr_index = 2
    /\ Len(prs) = 2
    /\ prs[1].fetch = "error"
    /\ prs[1].number \in processed_prs
    /\ prs[1].number \in fetch_failed
    /\ included_count = 0
    /\ skipped_count = 0
    /\ total_checked = 0
    /\ filtered_data = <<>>

(***************************************************************************)
(* C21: in one run of scrape_repository the number of candidates examined  *)
(* (file list fetched and filter applied) never exceeds the hard cap of    *)
(* 500, whatever the page size.                                            *)
(***************************************************************************)
C21_ExaminedWithinCap ==
    total_checked <= max_prs_to_check

(***************************************************************************)
(* scrape_repository against a listing that never runs out of pages.       *)
(* The endless listing is the listing read cyclically: every page is full, *)
(* every response carries a next link, and after the first cycle every     *)
(* candidate returned has been seen before.  One run, every request        *)
(* answered (fail_at = None).  page and total_fetched grow without bound   *)
(* in the code; they take no part in any test of the loop, and the model   *)
(* keeps them at their value once page has reached PageCap, MaxExtraPages  *)
(* pages after the first cycle, from where on every page repeats one seen. *)
(***************************************************************************)
MaxExtraPages == 2

EndlessScenarios ==
    {sc \in ShortScenarios \cup LongScenarios :
        sc.listing.head # <<>> \/ sc.listing.tail > 0}

PageCap == (ListingLen + per_page - 1) \div per_page + MaxExtraPages

\* Lines 171-182 against the endless listing: page p of per_page candidates
EndlessPageOf(p) ==
    [j \in 1..per_page |->
        ListingAt((((p - 1) * per_page + j - 1) % ListingLen) + 1)]

InitEndless ==
    /\ now = NowDay
    /\ FilterIdle
    /\ EvalIdle
    /\ ReportIdle
    /\ ApiIdle
    /\ \E sc \in EndlessScenarios :
          /\ listing = sc.listing
          /\ s_config = sc.config
          /\ fail_at = sc.fail_at
    /\ checkpoint = None
    /\ s_pc = "start"
    /\ run = 1
    /\ processed_prs = {}
    /\ filtered_data = <<>>
    /\ included_count = 0
    /\ skipped_count = 0
    /\ page = 0
    /\ total_fetched = 0
    /\ total_checked = 0
    /\ prs = <<>>
    /\ has_next = FALSE
    /\ pr_index = 0
    /\ reason = None
    /\ at_start = None
    /\ prev_end = "none"
    /\ stop = "none"
    /\ fetch_failed = {}

\* Lines 181-193: a page of the endless listing is retrieved; it is never
\* empty and always has a next link
GetPageEndless ==
    /\ s_pc = "get"
    /\ prs' = EndlessPageOf(page)
    /\ has_next' = TRUE
    /\ total_fetched' = IF page < PageCap
                        THEN total_fetched + Len(EndlessPageOf(page))
                        ELSE total_fetched
    /\ pr_index' = 1
    /\ s_pc' = "for"
    /\ UNCHANGED <<others, checkpoint, processed_prs, filtered_data,
                   included_count, skipped_count, page, total_checked, reason,
                   histvars>>

\* Line 286: page += 1
NextPageEndless ==
    /\ s_pc = "after_for"
    /\ included_count < max_prs
    /\ total_checked < max_prs_to_check
    /\ has_next
    /\ page' = IF page < PageCap THEN page + 1 ELSE page
    /\ s_pc' = "while"
    /\ UNCHANGED <<others, checkpoint, processed_prs, filtered_data,
                   included_count, skipped_count, total_fetched, total_checked,
                   prs, has_next, pr_index, reason, histvars>>

NextEndless ==
    \/ LoadCheckpoint
    \/ WhileTest
    \/ CheckRateLimit
    \/ GetPageEndless
    \/ SkipProcessed
    \/ BreakTarget
    \/ FetchError
    \/ RejectTooOld
    \/ RejectContinue
    \/ Accept
    \/ ForEnd
    \/ StopTarget
    \/ StopCap
    \/ NextPageEndless
    \/ FinalSave

\* The run is one sequential loop: its next statement is always executed.
SpecEndless == InitEndless /\ [][NextEndless]_vars /\ WF_vars(NextEndless)

(***************************************************************************)
(* C22: scrape_repository always terminates: against any listing,          *)
(* including one that never runs out of pages and in which no candidate    *)
(* is ever accepted (every candidate rejected, already processed, or       *)
(* failing its file-list fetch), the run eventually stops and writes the   *)
(* checkpoint.                                                             *)
(***************************************************************************)
C22_RunTerminates ==
    <>(s_pc = "done" /\ checkpoint # None)

(***************************************************************************)
(* C23: with the listing sorted by creation date descending (and every     *)
(* merge no earlier than its creation), when the scan stops on a too-old   *)
(* candidate every candidate later in the listing is also too old, so the  *)
(* early stop never skips a candidate that the filter would have accepted. *)
(***************************************************************************)
SortedByCreatedDesc ==
    \A j \in 1..(ListingLen - 1) :
        ListingAt(j).created_at[1] >= ListingAt(j + 1).created_at[1]

MergedAfterCreated ==
    \A j \in 1..ListingLen :
        ListingAt(j).merged_at # None =>
            ListingAt(j).merged_at[1] >= ListingAt(j).created_at[1]

WouldBeAccepted(c) ==
    /\ c.fetch = "ok"
    /\ filter_pr(c, c.files, s_config, now)[1]

StoppedOnTooOld ==
    /\ run = 1
    /\ s_pc = "done"
    /\ stop = "too_old"

C23_EarlyStopSkipsNoAcceptable ==
    (StoppedOnTooOld /\ SortedByCreatedDesc /\ MergedAfterCreated) =>
        \A j \in (Position + 1)..ListingLen :
            ~ WouldBeAccepted(ListingAt(j))

(***************************************************************************)
(* C24: during a run the checkpoint is persisted each time the number of   *)
(* records accepted in this run reaches a multiple of checkpoint_interval, *)
(* so at every point of the run the number of accepted records not yet     *)
(* persisted is smaller than checkpoint_interval.                          *)
(***************************************************************************)
PersistedRecords ==
    IF checkpoint = None THEN <<>> ELSE checkpoint[1].filtered_prs

NotYetPersisted == Len(filtered_data) - Len(PersistedRecords)

C24_UnpersistedBelowInterval ==
    /\ NotYetPersisted < checkpoint_interval
    /\ (included_count > 0 /\ included_count % checkpoint_interval = 0) =>
           PersistedRecords = filtered_data

\* The second record of the run has just been accepted with
\* checkpoint_interval = 2 and both records are in the checkpoint.
C24_Witness ==
    /\ run = 1
    /\ s_pc = "for"
    /\ checkpoint_interval = 2
    /\ included_count = 2
    /\ Len(filtered_data) = 2
    /\ PersistedRecords = filtered_data

(***************************************************************************)
(* C25: on start scrape_repository restores the processed-id set and the   *)
(* accepted-record list from an existing checkpoint, and a candidate whose *)
(* id is in the processed set is never passed to the file-list fetch or to *)
(* the filter again and is never appended to the accepted list again.      *)
(***************************************************************************)
C25_RestoresAndSkipsProcessed ==
    [][/\ (s_pc = "start" /\ checkpoint # None) =>
              /\ processed_prs' = ListToSet(checkpoint[1].processed_pr_numbers)
              /\ filtered_data' = checkpoint[1].filtered_prs
       /\ (InFor /\ pr_number \in processed_prs) =>
              /\ pr_index' = pr_index + 1
              /\ fetch_failed' = fetch_failed
              /\ total_checked' = total_checked
              /\ skipped_count' = skipped_count
              /\ included_count' = included_count
              /\ filtered_data' = filtered_data
              /\ processed_prs' = processed_prs
              /\ checkpoint' = checkpoint]_vars

\* A resumed run has passed over the first candidate of its first page, which
\* the checkpoint listed as processed, without examining it.
C25_Witness ==
    /\ run = 2
    /\ at_start # None
    /\ s_pc = "for"
    /\ page = 1
    /\ pr_index = 2
    /\ prs[1].number \in ListToSet(at_start[1].processed_pr_numbers)
    /\ prs[1].number \in processed_prs
    /\ filtered_data = at_start[1].filtered_prs
    /\ total_checked = 0
    /\ fetch_failed = {}

(***************************************************************************)
(* C26: the file-count check of filter_pr passes exactly when              *)
(* min_files_changed <= number of files <= max_files_changed, both bounds  *)
(* inclusive (min = max = 2 with exactly 2 files passes that check).       *)
(***************************************************************************)
FileCountWithinBounds ==
    /\ f_config.pr_filters.min_files_changed <= Len(f_files)
    /\ Len(f_files) <= f_config.pr_filters.max_files_changed

\* The merged, created-before and max-age checks, which precede the
\* file-count check, let the candidate through.
ReachesFileCountCheck ==
    \A k \in 1..3 : ~ CheckFails(k, f_pr, f_files, f_config, f_at)

RejectedOnFileCount ==
    /\ ~ f_out[1]
    /\ f_out[2] # None
    /\ \/ IsPrefix(<<"too", "few", "files">>, f_out[2])
       \/ IsPrefix(<<"too", "many", "files">>, f_out[2])

C26_FileCountBoundsInclusive ==
    f_pc = "done" =>
        /\ RejectedOnFileCount => ~ FileCountWithinBounds
        /\ ReachesFileCountCheck =>
               (RejectedOnFileCount <=> ~ FileCountWithinBounds)

\* min = max = 2 and exactly two files: the candidate passes the file-count
\* check and is included.
C26_Witness ==
    /\ f_pc = "done"
    /\ f_config.pr_filters.min_files_changed = 2
    /\ f_config.pr_filters.max_files_changed = 2
    /\ Len(f_files) = 2
    /\ ReachesFileCountCheck
    /\ f_out = <<TRUE, None>>

(***************************************************************************)
(* C27: in every persisted checkpoint, and at every point of a run started *)
(* from an empty or consistent checkpoint, the PR number of every accepted *)
(* record is in the processed-id set, even when the upstream listing       *)
(* returns the same candidate on more than one page.                       *)
(***************************************************************************)
AcceptedNumbers(records) == {records[k].pr_number : k \in 1..Len(records)}

C27_AcceptedAreProcessed ==
    /\ AcceptedNumbers(filtered_data) \subseteq processed_prs
    /\ checkpoint # None =>
           AcceptedNumbers(checkpoint[1].filtered_prs)
               \subseteq ListToSet(checkpoint[1].processed_pr_numbers)

\* The listing returned an accepted candidate a second time, on the second
\* page; the run went past it and the persisted checkpoint holds its record.
C27_Witness ==
    /\ run = 1
    /\ s_pc = "for"
    /\ page = 2
    /\ pr_index = 2
    /\ filtered_data # <<>>
    /\ prs[1].number = filtered_data[1].pr_number
    /\ checkpoint # None
    /\ checkpoint[1].filtered_prs = filtered_data

(***************************************************************************)
(* C28: in a single run the count of newly accepted records                *)
(* (included_count) never exceeds max_prs_per_repo, and once it equals     *)
(* max_prs_per_repo no further candidate has its file list fetched or is   *)
(* filtered and no further page is requested.                              *)
(***************************************************************************)
RunInProgress == s_pc \notin {"start", "done", "raised"}

C28_TargetBoundsTheRun ==
    [][/\ RunInProgress' => included_count' <= max_prs
       /\ (RunInProgress /\ included_count = max_prs) =>
              /\ s_pc' \in {"for", "after_for", "final_save", "done"}
              /\ included_count' = included_count
              /\ total_checked' = total_checked
              /\ fetch_failed' = fetch_failed
              /\ skipped_count' = skipped_count
              /\ filtered_data' = filtered_data
              /\ processed_prs' = processed_prs
              /\ page' = page
              /\ total_fetched' = total_fetched
              /\ prs' = prs]_vars

\* The target was reached in the middle of a page: the for loop was left at
\* a candidate that had not been processed, and a further page exists.
C28_Witness ==
    /\ s_pc = "after_for"
    /\ included_count = max_prs
    /\ pr_index <= Len(prs)
    /\ prs[pr_index].number \notin processed_prs
    /\ has_next

(***************************************************************************)
(* C29: a candidate whose file-list fetch failed in a run that persisted   *)
(* its checkpoint is never examined in any later run resumed from that     *)
(* checkpoint: the failure is never retried and the candidate never enters *)
(* the accepted list.                                                      *)
(***************************************************************************)
ResumedFromCheckpoint ==
    /\ run > 1
    /\ RunInProgress
    /\ at_start # None

C29_FailedFetchNeverRetried ==
    [][(ResumedFromCheckpoint /\ InFor /\ pr_number \in fetch_failed) =>
           /\ processed_prs' = processed_prs
           /\ total_checked' = total_checked
           /\ filtered_data' = filtered_data
           /\ included_count' = included_count
           /\ skipped_count' = skipped_count]_vars

(***************************************************************************)
(* C30: every result that evaluate_with_claude returns without the error   *)
(* flag, whether built from the current shape (scores) or from the legacy  *)
(* shape (score only), carries the fields the statistics of                *)
(* generate_report read (score, facts_covered, total_facts), so            *)
(* generate_report never fails on a response that the aggregator accepted. *)
(***************************************************************************)
StatisticsFields == {"score", "facts_covered", "total_facts"}

AcceptedResultsCarryFields ==
    \A i \in 1..Len(evaluations) :
        ~ Get(evaluations[i].evaluation, "error", FALSE) =>
            StatisticsFields \subseteq DOMAIN evaluations[i].evaluation

C30_ReportNeverFailsOnAcceptedResult ==
    [][AllEvaluated => (AcceptedResultsCarryFields /\ r_pc' # "raised")]_vars

====
